---- MODULE Spec2Model ----
(***************************************************************************)
(* Model of the rs-tml parser: the balanced-delimiter scanner (util.rs),   *)
(* the tag lexer (tag.rs), the attribute parser (attribute.rs), the text   *)
(* literal parser (models/text.rs), the comment skipper (parse.rs) and the *)
(* node / element assembler (node.rs, models/element.rs).                  *)
(*                                                                         *)
(* A &str is modelled as a sequence of one-character strings.  Offsets are *)
(* 0-based as in the source; Take/Drop turn them into slices.  The only    *)
(* place where the byte width of a character matters is the slice          *)
(* &input[i - 1..i] of delimited, which aborts when the character before   *)
(* offset i is wider than one byte; that outcome is the result kind        *)
(* "Panic".                                                                *)
(***************************************************************************)
EXTENDS Integers, Sequences, FiniteSets, TLC

VARIABLES input, op, arg, result

vars == <<input, op, arg, result>>

(***************************************************************************)
(* Characters                                                              *)
(***************************************************************************)
BACKSLASH == "\\"
QUOTE == "\""
\* U+00E9, a two-byte alphanumeric character
EACUTE == "U+00E9"

\* char::is_whitespace, on the characters the model draws
IsWhitespace(c) == c \in {" ", "\n"}

\* char::is_alphanumeric, on the characters the model draws (Unicode aware)
IsAlphanumeric(c) == c \in {"a", "b", "c", "d", "t", EACUTE}

\* a character whose UTF-8 encoding is longer than one byte
IsMultiByte(c) == c = EACUTE

(***************************************************************************)
(* &str helpers                                                            *)
(***************************************************************************)
\* the first n characters of s (all of s when it is shorter)
Take(s, n) == SubSeq(s, 1, IF n < Len(s) THEN n ELSE Len(s))

Drop(s, n) == SubSeq(s, n + 1, Len(s))

\* str::starts_with
StartsWith(s, t) == Len(s) >= Len(t) /\ SubSeq(s, 1, Len(t)) = t

\* str::find: 0-based offset of the first occurrence of t in s, -1 for None
Find(s, t) ==
    LET hits == {i \in 0..(Len(s) - Len(t)) : SubSeq(s, i + 1, i + Len(t)) = t}
    IN IF hits = {} THEN -1 ELSE CHOOSE i \in hits : \A j \in hits : i <= j

\* str::trim_start
TrimStart(s) ==
    LET keep == {i \in 1..Len(s) : ~IsWhitespace(s[i])}
    IN IF keep = {} THEN <<>>
       ELSE Drop(s, (CHOOSE i \in keep : \A j \in keep : i <= j) - 1)

\* str::trim_end
TrimEnd(s) ==
    LET keep == {i \in 1..Len(s) : ~IsWhitespace(s[i])}
    IN IF keep = {} THEN <<>>
       ELSE Take(s, CHOOSE i \in keep : \A j \in keep : i >= j)

(***************************************************************************)
(* ParseResult / ParseError (error.rs)                                     *)
(***************************************************************************)
Ok(rest, value) == [kind |-> "Ok", rest |-> rest, value |-> value]

EmptyInput == [kind |-> "EmptyInput"]

UnexpectedEndOfInput == [kind |-> "UnexpectedEndOfInput"]

\* Some(context): the message and, for a formatted message, the token it names
Ctx(msg) == <<msg, <<>>>>

invalid_input(found, context) ==
    [kind |-> "InvalidInput", found |-> found, context |-> context]

missing_token(expected, found, context) ==
    [kind |-> "MissingToken", expected |-> expected, found |-> found,
     context |-> context]

missing_delimiter(expected, found) ==
    [kind |-> "MissingEndDelimiter", expected |-> expected, found |-> found]

\* the call aborts (slice index off a char boundary) instead of returning
Panic == [kind |-> "Panic"]

IsOk(r) == r.kind = "Ok"

\* the literal "end of input" that delimited reports as found
END_OF_INPUT == <<"e", "n", "d", " ", "o", "f", " ", "i", "n", "p", "u", "t">>

(***************************************************************************)
(* Delimiter scanner (util.rs)                                             *)
(***************************************************************************)
RECURSIVE delimited_loop_no_escape(_, _, _)
\* delimited_loop with the escape test dropped: the first quote closes
delimited_loop_no_escape(inp, delim, from) ==
    LET p == Find(Drop(inp, from), delim)
        i == from + p
    IN IF p = -1 THEN missing_delimiter(delim, END_OF_INPUT)
       ELSE Ok(Drop(inp, i + Len(delim)), Take(inp, i))

RECURSIVE delimited_loop(_, _, _)
\* the for loop over input.match_indices(delim), resumed at offset from
delimited_loop(inp, delim, from) ==
    LET p == Find(Drop(inp, from), delim)
        i == from + p
    IN IF p = -1 THEN missing_delimiter(delim, END_OF_INPUT)
       ELSE IF i = 0 THEN Ok(Drop(inp, i + Len(delim)), Take(inp, i))
       ELSE IF IsMultiByte(inp[i]) THEN Panic
       ELSE IF inp[i] # BACKSLASH
            THEN Ok(Drop(inp, i + Len(delim)), Take(inp, i))
       ELSE delimited_loop(inp, delim, i + Len(delim))

\* delimited after its trim_start
delimited_trimmed(inp, delim) ==
    IF ~StartsWith(inp, delim)
    THEN invalid_input(Take(inp, Len(delim)), Ctx("expected start delimiter"))
    ELSE delimited_loop(Drop(inp, Len(delim)), delim, 0)

delimited(text, delim) == delimited_trimmed(TrimStart(text), delim)

RECURSIVE nested_loop_first_end(_, _, _, _, _)
\* nested_loop without the depth count: the first unescaped end token closes
nested_loop_first_end(inp, start, end, depth, search_offset) ==
    LET tail == Drop(inp, search_offset)
        pe == Find(tail, end)
        off == search_offset + pe
    IN IF pe = -1 THEN missing_delimiter(end, inp)
       ELSE IF off > 0 /\ inp[off] = BACKSLASH
            THEN nested_loop_first_end(inp, start, end, depth, off + 1)
       ELSE Ok(Drop(inp, off + Len(end)), Take(inp, off))

RECURSIVE nested_loop_eof_closes(_, _, _, _, _)
\* nested_loop that takes the end of the input for the missing end token
nested_loop_eof_closes(inp, start, end, depth, search_offset) ==
    LET tail == Drop(inp, search_offset)
        ps == Find(tail, start)
        pe == Find(tail, end)
        is_start_delim == ps # -1 /\ (pe = -1 \/ ps <= pe)
        off == search_offset + (IF is_start_delim THEN ps ELSE pe)
    IN IF ps = -1 /\ pe = -1 THEN Ok(<<>>, inp)
       ELSE IF off > 0 /\ inp[off] = BACKSLASH
            THEN nested_loop_eof_closes(inp, start, end, depth, off + 1)
       ELSE IF is_start_delim
            THEN nested_loop_eof_closes(inp, start, end, depth + 1,
                                        off + Len(start))
       ELSE IF depth - 1 = 0
            THEN Ok(Drop(inp, off + Len(end)), Take(inp, off))
       ELSE nested_loop_eof_closes(inp, start, end, depth - 1, off + Len(end))

RECURSIVE nested_loop_skips_literals(_, _, _, _, _)
\* nested_loop passing over the tokens that stand inside a quoted literal
nested_loop_skips_literals(inp, start, end, depth, search_offset) ==
    LET tail == Drop(inp, search_offset)
        ps == Find(tail, start)
        pe == Find(tail, end)
        is_start_delim == ps # -1 /\ (pe = -1 \/ ps <= pe)
        off == search_offset + (IF is_start_delim THEN ps ELSE pe)
    IN IF ps = -1 /\ pe = -1 THEN missing_delimiter(end, inp)
       ELSE IF \/ off > 0 /\ inp[off] = BACKSLASH
               \/ Cardinality({i \in 1..off : inp[i] = QUOTE}) % 2 = 1
            THEN nested_loop_skips_literals(inp, start, end, depth, off + 1)
       ELSE IF is_start_delim
            THEN nested_loop_skips_literals(inp, start, end, depth + 1,
                                            off + Len(start))
       ELSE IF depth - 1 = 0
            THEN Ok(Drop(inp, off + Len(end)), Take(inp, off))
       ELSE nested_loop_skips_literals(inp, start, end, depth - 1,
                                       off + Len(end))

RECURSIVE nested_loop(_, _, _, _, _)
\* the while-let loop of nested: inp is the text after the opening token
nested_loop(inp, start, end, depth, search_offset) ==
    LET tail == Drop(inp, search_offset)
        ps == Find(tail, start)
        pe == Find(tail, end)
        is_start_delim == ps # -1 /\ (pe = -1 \/ ps <= pe)
        off == search_offset + (IF is_start_delim THEN ps ELSE pe)
    IN IF ps = -1 /\ pe = -1 THEN missing_delimiter(end, inp)
       ELSE IF off > 0 /\ inp[off] = BACKSLASH
            THEN nested_loop(inp, start, end, depth, off + 1)
       ELSE IF is_start_delim
            THEN nested_loop(inp, start, end, depth + 1, off + Len(start))
       ELSE IF depth - 1 = 0
            THEN Ok(Drop(inp, off + Len(end)), Take(inp, off))
       ELSE nested_loop(inp, start, end, depth - 1, off + Len(end))

\* nested_trimmed looking for the opening token further on in the text
nested_trimmed_scans_ahead(inp, start, end) ==
    IF Find(inp, start) = -1
    THEN invalid_input(Take(inp, Len(start)),
                       <<"Expected start delimiter: ", start>>)
    ELSE nested_loop(Drop(inp, Find(inp, start) + Len(start)),
                     start, end, 1, 0)

\* nested after its trim_start
nested_trimmed(inp, start, end) ==
    IF ~StartsWith(inp, start)
    THEN invalid_input(Take(inp, Len(start)),
                       <<"Expected start delimiter: ", start>>)
    ELSE IF start = end THEN delimited(inp, start)
    ELSE nested_loop(Drop(inp, Len(start)), start, end, 1, 0)

nested(text, start, end) == nested_trimmed(TrimStart(text), start, end)

quote_nested(text) == delimited(text, <<QUOTE>>)

(***************************************************************************)
(* Tag lexer (tag.rs)                                                      *)
(***************************************************************************)
\* the characters of s
Chars(s) == {s[i] : i \in 1..Len(s)}

\* None, or Some((head, tail)) split before the first character satisfying
\* the predicate (a function from the characters of s to BOOLEAN)
split_exclusive_once(s, predicate) ==
    LET hits == {i \in 1..Len(s) : predicate[s[i]]}
        idx == CHOOSE i \in hits : \A j \in hits : i <= j
    IN IF hits = {} THEN [some |-> FALSE, head |-> <<>>, tail |-> <<>>]
       ELSE [some |-> TRUE, head |-> Take(s, idx - 1), tail |-> Drop(s, idx - 1)]

Tag_new(name) == [name |-> name]

\* the tag lexer with the hyphen left out of the name characters
Tag_parse_alnum_only(inp) ==
    LET sp == split_exclusive_once(inp,
                  [c \in Chars(inp) |-> ~IsAlphanumeric(c)])
        name == IF sp.some THEN sp.head ELSE inp
        rest == IF sp.some THEN sp.tail ELSE <<>>
    IN IF name = <<>> THEN EmptyInput ELSE Ok(rest, Tag_new(name))

Tag_parse_no_whitespace(inp) ==
    LET sp == split_exclusive_once(inp,
                  [c \in Chars(inp) |-> ~(IsAlphanumeric(c) \/ c = "-")])
        name == IF sp.some THEN sp.head ELSE inp
        rest == IF sp.some THEN sp.tail ELSE <<>>
    IN IF name = <<>> THEN EmptyInput ELSE Ok(rest, Tag_new(name))

(***************************************************************************)
(* Attribute parser (attribute.rs)                                         *)
(***************************************************************************)
ID == <<"i", "d">>
CLASS == <<"c", "l", "a", "s", "s">>
KEY_TOKEN == <<".", "[", "n", "a", "m", "e", "]">>

Attribute_new(key, value) == [key |-> key, value |-> value]

\* get_attribute_key without the test for the empty key
get_attribute_key_no_empty_test(key) ==
    IF ~StartsWith(key, <<".">>)
    THEN invalid_input(key, Ctx("Attribute key must start with a period"))
    ELSE LET name == Drop(key, 1)
             t == Tag_parse_no_whitespace(name)
         IN IF ~IsOk(t)
            THEN invalid_input(name, Ctx("Invalid attribute key format"))
            ELSE Ok(t.rest, t.value.name)

get_attribute_key(key) ==
    IF key = <<>>
    THEN missing_token(KEY_TOKEN, key, Ctx("Attribute key cannot be empty"))
    ELSE IF ~StartsWith(key, <<".">>)
    THEN invalid_input(key, Ctx("Attribute key must start with a period"))
    ELSE LET name == Drop(key, 1)
             t == Tag_parse_no_whitespace(name)
         IN IF ~IsOk(t)
            THEN invalid_input(name, Ctx("Invalid attribute key format"))
            ELSE Ok(t.rest, t.value.name)

\* the class shorthand built from the key lexed from the whole input
Attribute_class(k) ==
    IF IsOk(k) THEN Ok(k.rest, Attribute_new(CLASS, k.value)) ELSE k

\* the key/value attribute built from the scanned value q and the lexed key k
Attribute_key_value(q, k) ==
    IF ~IsOk(q) THEN q
    ELSE IF ~IsOk(k) THEN k
    ELSE Ok(q.rest, Attribute_new(k.value, q.value))

\* the id shorthand built from the name lexed after '#'
Attribute_id(inp, t) ==
    IF ~IsOk(t) THEN invalid_input(inp, Ctx("Invalid id format"))
    ELSE Ok(t.rest, Attribute_new(ID, t.value.name))

\* the '.' forms: the input split at its first '=' (offset p), if any
Attribute_split(inp, p) ==
    IF p = -1 THEN Attribute_class(get_attribute_key(inp))
    ELSE Attribute_key_value(quote_nested(TrimStart(Drop(inp, p + 1))),
                             get_attribute_key(TrimEnd(Take(inp, p))))

\* the attribute parser that splits at '=' before it looks for the '#' form
Attribute_parse_eq_first(inp) ==
    IF Find(inp, <<"=">>) = -1 /\ StartsWith(inp, <<"#">>)
    THEN Attribute_id(inp, Tag_parse_no_whitespace(Drop(inp, 1)))
    ELSE Attribute_split(inp, Find(inp, <<"=">>))

Attribute_parse_no_whitespace(inp) ==
    IF StartsWith(inp, <<"#">>)
    THEN Attribute_id(inp, Tag_parse_no_whitespace(Drop(inp, 1)))
    ELSE Attribute_split(inp, Find(inp, <<"=">>))

(***************************************************************************)
(* Text literal parser (models/text.rs)                                    *)
(***************************************************************************)
Text_new(content) == [content |-> content]

\* Text_from with the two parts of the scanned pair taken for each other
Text_from_swapped(q) ==
    IF ~IsOk(q) THEN q ELSE Ok(q.value, Text_new(q.rest))

\* the Text built from the scanned literal q
Text_from(q) == IF ~IsOk(q) THEN q ELSE Ok(q.rest, Text_new(q.value))

\* the Text parse accepting an unquoted word as well as a quoted literal
Text_parse_bare_word(inp) ==
    IF IsOk(Tag_parse_no_whitespace(TrimStart(inp)))
    THEN Ok(Tag_parse_no_whitespace(TrimStart(inp)).rest,
            Text_new(Tag_parse_no_whitespace(TrimStart(inp)).value.name))
    ELSE Text_from(quote_nested(inp))

Text_parse_no_whitespace(inp) == Text_from(quote_nested(inp))

(***************************************************************************)
(* Comment skipper (parse.rs)                                              *)
(***************************************************************************)
COMMENT_TOKENS == <<"/", "/", " ", "o", "r", " ", "/", "*">>
LINE_START == <<"/", "/">>
BLOCK_START == <<"/", "*">>
BLOCK_END == <<"*", "/">>

\* the line comment that opens inp: up to the first newline (offset p of
\* rest), or to the end of the input
Comment_line(rest, p) ==
    IF p # -1
    THEN Ok(Drop(rest, p + 1), [type |-> "Line", text |-> Take(rest, p)])
    ELSE Ok(<<>>, [type |-> "Line", text |-> rest])

\* Comment_block that takes an unterminated block comment to run to the end
\* of the input
Comment_block_unterminated(inp, n) ==
    IF IsOk(n) THEN Ok(n.rest, [type |-> "Block", text |-> n.value])
    ELSE IF StartsWith(inp, BLOCK_START)
    THEN Ok(<<>>, [type |-> "Block", text |-> Drop(inp, 2)])
    ELSE missing_token(COMMENT_TOKENS, inp,
           Ctx("Expected '//' for line comment or '/*' for block comment"))

\* the block comment scanned as n, or the error for "no comment here"
Comment_block(inp, n) ==
    IF IsOk(n) THEN Ok(n.rest, [type |-> "Block", text |-> n.value])
    ELSE missing_token(COMMENT_TOKENS, inp,
           Ctx("Expected '//' for line comment or '/*' for block comment"))

\* Comment::parse_no_whitespace after its trim_start
Comment_trimmed(inp) ==
    IF StartsWith(inp, LINE_START)
    THEN Comment_line(Drop(inp, 2), Find(Drop(inp, 2), <<"\n">>))
    ELSE Comment_block(inp, nested(inp, BLOCK_START, BLOCK_END))

Comment_parse_no_whitespace(text) == Comment_trimmed(TrimStart(text))

RECURSIVE consume_comments(_)
\* consume_comments_step that stops after the first comment
consume_comments_step_once(inp, c) ==
    IF IsOk(c) THEN TrimStart(c.rest) ELSE TrimStart(inp)

\* one turn of the loop of consume_comments: c is the comment parsed at inp
consume_comments_step(inp, c) ==
    IF IsOk(c) THEN consume_comments(c.rest) ELSE TrimStart(inp)

consume_comments(inp) ==
    consume_comments_step(inp, Comment_parse_no_whitespace(TrimStart(inp)))

(***************************************************************************)
(* parse / parse_ignoring_comments (parse.rs), per entity                  *)
(***************************************************************************)
Tag_parse(inp) == Tag_parse_no_whitespace(TrimStart(inp))

Attribute_parse(inp) == Attribute_parse_no_whitespace(TrimStart(inp))

Text_parse(inp) == Text_parse_no_whitespace(TrimStart(inp))

Attribute_parse_ignoring_comments(inp) ==
    Attribute_parse_no_whitespace(consume_comments(inp))

Text_parse_ignoring_comments(inp) ==
    Text_parse_no_whitespace(consume_comments(inp))

(***************************************************************************)
(* Node / Element assembler (node.rs, models/element.rs)                   *)
(***************************************************************************)
OPEN_BRACE == <<"{">>
CLOSE_BRACE == <<"}">>

Node_Text(text) == [type |-> "Text", text |-> text]

Node_Element(element) == [type |-> "Element", element |-> element]

RECURSIVE Element_parse_no_whitespace(_)
RECURSIVE Node_parse_no_whitespace(_)
RECURSIVE element_body(_, _, _)

Element_parse_ignoring_comments(inp) ==
    Element_parse_no_whitespace(consume_comments(inp))

Node_parse_ignoring_comments(inp) ==
    Node_parse_no_whitespace(consume_comments(inp))

\* the alternatives of Node::parse_no_whitespace: t is the Text parse of
\* inp, e the Element parse of inp (looked at only when t failed)
Node_alternatives(inp, t, e) ==
    IF IsOk(t) THEN Ok(t.rest, Node_Text(t.value))
    ELSE IF t = Panic THEN Panic
    ELSE IF IsOk(e) THEN Ok(e.rest, Node_Element(e.value))
    ELSE IF e = Panic THEN Panic
    ELSE invalid_input(inp, Ctx("Expected a Text or Element node"))

Node_parse_no_whitespace(inp) ==
    Node_alternatives(inp, Text_parse_ignoring_comments(inp),
                      Element_parse_ignoring_comments(inp))

\* the alternatives tried Element first, as the earlier
\* Node::parse_no_whitespace does: e is the Element parse of inp, t the
\* Text parse of inp (looked at only when e failed)
Node_alternatives_element_first(inp, e, t) ==
    IF IsOk(e) THEN Ok(e.rest, Node_Element(e.value))
    ELSE IF e = Panic THEN Panic
    ELSE IF IsOk(t) THEN Ok(t.rest, Node_Text(t.value))
    ELSE IF t = Panic THEN Panic
    ELSE invalid_input(inp, Ctx("Cannot find Node type"))

\* Node::parse_no_whitespace with its two alternatives in the other order
Node_parse_element_first(inp) ==
    Node_alternatives_element_first(inp, Element_parse_ignoring_comments(inp),
                                    Text_parse_ignoring_comments(inp))

\* the end of the element body: the two vectors
body_done(attributes, children) ==
    Ok(<<>>, [attributes |-> attributes, children |-> children])

\* the alternatives of one turn of the body loop: a is the Attribute parse
\* of rest, n the Node parse of rest (looked at only when a failed)
body_alternatives(rest, attributes, children, a, n) ==
    IF IsOk(a) THEN element_body(a.rest, Append(attributes, a.value), children)
    ELSE IF a = Panic THEN Panic
    ELSE IF IsOk(n)
         THEN element_body(n.rest, attributes, Append(children, n.value))
    ELSE IF n = Panic THEN Panic
    ELSE invalid_input(rest, Ctx("Unexpected content in element"))

\* one turn of the body loop after its consume_comments
body_turn(rest, attributes, children) ==
    IF rest = <<>> THEN body_done(attributes, children)
    ELSE body_alternatives(rest, attributes, children,
                           Attribute_parse_ignoring_comments(rest),
                           Node_parse_ignoring_comments(rest))

\* the while loop over the element body; Ok carries the two vectors
element_body(rest, attributes, children) ==
    IF rest = <<>> THEN body_done(attributes, children)
    ELSE body_turn(consume_comments(rest), attributes, children)

\* the Element assembled from its name, the remainder after its closing
\* brace and the outcome of the body loop
Element_from(name, rest_out, body) ==
    IF ~IsOk(body) THEN body
    ELSE Ok(rest_out, [name |-> name,
                       attributes |-> body.value.attributes,
                       children |-> body.value.children])

\* Element parse once the body span b has been scanned
Element_body_span(name, b) ==
    IF ~IsOk(b) THEN b
    ELSE Element_from(name, b.rest, element_body(b.value, <<>>, <<>>))

\* Element parse once the tag t has been lexed
Element_after_tag(t) ==
    IF ~IsOk(t) THEN t
    ELSE Element_body_span(t.value,
             nested(consume_comments(t.rest), OPEN_BRACE, CLOSE_BRACE))

Element_parse_no_whitespace(inp) ==
    Element_after_tag(Tag_parse_no_whitespace(inp))

Element_parse(inp) == Element_parse_no_whitespace(TrimStart(inp))

Node_parse(inp) == Node_parse_no_whitespace(TrimStart(inp))

(***************************************************************************)
(* Block (block.rs)                                                        *)
(***************************************************************************)
Block_new(children) == [children |-> children]

RECURSIVE Block_loop(_, _)
\* one turn of the while loop of Block: n is the Node parse of inp
Block_turn(inp, children, n) ==
    IF IsOk(n) THEN Block_loop(n.rest, Append(children, n.value))
    ELSE IF n = Panic THEN Panic
    ELSE Ok(inp, Block_new(children))

\* the while loop of Block::parse_no_whitespace
Block_loop(inp, children) ==
    IF inp = <<>> THEN Ok(inp, Block_new(children))
    ELSE Block_turn(inp, children, Node_parse_no_whitespace(inp))

Block_parse_no_whitespace(inp) == Block_loop(inp, <<>>)

(***************************************************************************)
(* Repetition combinators (parse.rs), generic in the entity parsed         *)
(***************************************************************************)
\* Self::parse_no_whitespace for the implementor named entity
parse_no_whitespace(entity, inp) ==
    CASE entity = "Comment" -> Comment_parse_no_whitespace(inp)
      [] entity = "Tag" -> Tag_parse_no_whitespace(inp)
      [] entity = "Attribute" -> Attribute_parse_no_whitespace(inp)
      [] entity = "Text" -> Text_parse_no_whitespace(inp)
      [] entity = "Node" -> Node_parse_no_whitespace(inp)
      [] entity = "Element" -> Element_parse_no_whitespace(inp)
      [] entity = "Block" -> Block_parse_no_whitespace(inp)

parse_ignoring_comments(entity, inp) ==
    parse_no_whitespace(entity, consume_comments(inp))

RECURSIVE parse_many_loop(_, _, _)
\* the match of parse_many: r is the primitive's result on the trimmed inp
parse_many_turn(entity, inp, items, r) ==
    IF IsOk(r) THEN parse_many_loop(entity, r.rest, Append(items, r.value))
    ELSE IF r = Panic THEN Panic
    ELSE Ok(inp, items)

\* the loop of parse_many
parse_many_loop(entity, inp, items) ==
    IF TrimStart(inp) = <<>> THEN Ok(inp, items)
    ELSE parse_many_turn(entity, inp, items,
                         parse_no_whitespace(entity, TrimStart(inp)))

parse_many(entity, inp) == parse_many_loop(entity, inp, <<>>)

\* the pair (input, items) that parse_many_ignoring_comments returns
Tuple(rest, items) == [kind |-> "Tuple", rest |-> rest, value |-> items]

RECURSIVE parse_many_ignoring_comments_loop(_, _, _)
\* the while let of parse_many_ignoring_comments: r is the result at inp
parse_many_ignoring_comments_turn(entity, inp, items, r) ==
    IF IsOk(r)
    THEN parse_many_ignoring_comments_loop(entity, r.rest,
                                           Append(items, r.value))
    ELSE IF r = Panic THEN Panic
    ELSE Tuple(inp, items)

parse_many_ignoring_comments_loop(entity, inp, items) ==
    parse_many_ignoring_comments_turn(entity, inp, items,
                                      parse_ignoring_comments(entity, inp))

parse_many_ignoring_comments(entity, inp) ==
    parse_many_ignoring_comments_loop(entity, inp, <<>>)

RECURSIVE parse_n_loop(_, _, _, _)
\* the match of parse_n with a primitive error reported as early exhaustion
parse_n_turn_masks_error(entity, items, left, r) ==
    IF IsOk(r)
    THEN parse_n_loop(entity, r.rest, Append(items, r.value), left - 1)
    ELSE IF r = Panic THEN Panic
    ELSE UnexpectedEndOfInput

\* the match of parse_n: r is the primitive's result, left the turns to go
parse_n_turn(entity, items, left, r) ==
    IF IsOk(r)
    THEN parse_n_loop(entity, r.rest, Append(items, r.value), left - 1)
    ELSE r

\* the for loop of parse_n with left turns to go
parse_n_loop(entity, inp, items, left) ==
    IF left = 0 THEN Ok(inp, items)
    ELSE IF TrimStart(inp) = <<>> THEN UnexpectedEndOfInput
    ELSE parse_n_turn(entity, items, left,
                      parse_no_whitespace(entity, TrimStart(inp)))

parse_n(entity, inp, n) == parse_n_loop(entity, inp, <<>>, n)

(***************************************************************************)
(* Builder API (models/element.rs) and rendering (Display)                 *)
(***************************************************************************)
\* Element::new: the name converted to a Tag, no attributes, no children
Element_new(name) ==
    [name |-> Tag_new(name), attributes |-> <<>>, children |-> <<>>]

\* add_key_value / with_key_value
with_key_value(element, key, value) ==
    [element EXCEPT !.attributes = Append(@, Attribute_new(key, value))]

\* add_attribute / with_attribute
with_attribute(element, attribute) ==
    [element EXCEPT !.attributes = Append(@, attribute)]

\* with_child putting the new node in front of the children
with_child_in_front(element, child) ==
    [element EXCEPT !.children = <<child>> \o @]

\* add_child / with_child
with_child(element, child) ==
    [element EXCEPT !.children = Append(@, child)]

\* impl Display for Tag: the name
Tag_display(tag) == tag.name

\* impl Display for Attribute: key="value"
Attribute_display(attribute) ==
    attribute.key \o <<"=", QUOTE>> \o attribute.value \o <<QUOTE>>

\* impl Display for Text: the content
Text_display(text) == text.content

RECURSIVE attributes_display(_)
\* the attributes in order, each followed by a space
attributes_display(attributes) ==
    IF attributes = <<>> THEN <<>>
    ELSE Attribute_display(Head(attributes)) \o <<" ">>
             \o attributes_display(Tail(attributes))

RECURSIVE Element_display(_)
RECURSIVE children_display(_)

\* a node rendered by the Display of its payload
Node_display(node) ==
    IF node.type = "Text" THEN Text_display(node.text)
    ELSE Element_display(node.element)

\* the children in order, each followed by a space
children_display(children) ==
    IF children = <<>> THEN <<>>
    ELSE Node_display(Head(children)) \o <<" ">>
             \o children_display(Tail(children))

\* an element rendered in the surface grammar: tagname { body }
Element_display(element) ==
    Tag_display(element.name) \o <<" ", "{", " ">>
        \o attributes_display(element.attributes)
        \o children_display(element.children) \o <<"}">>

(***************************************************************************)
(* Inputs                                                                  *)
(***************************************************************************)
MaxScanLen == 5
MaxAtoms == 5

\* every text over alphabet A of at most n characters
Strs(A, n) == UNION {[1..k -> A] : k \in 0..n}

RECURSIVE Flat(_)
\* the concatenation of a sequence of texts
Flat(ss) == IF ss = <<>> THEN <<>> ELSE Head(ss) \o Flat(Tail(ss))

ScanAlphabet == {"{", "}", QUOTE, BACKSLASH, " ", "a", EACUTE}

CommentAtoms == {BLOCK_START, BLOCK_END, <<"a">>, <<BACKSLASH>>, <<" ">>}

ScanInputs ==
    Strs(ScanAlphabet, MaxScanLen)
        \cup {Flat(ss) : ss \in Strs(CommentAtoms, MaxAtoms)}

\* the token pairs the parser scans with (element.rs:137, parse.rs:26)
TokenPairs == {<<OPEN_BRACE, CLOSE_BRACE>>, <<BLOCK_START, BLOCK_END>>}

NoResult == [kind |-> "None"]

NoArg == <<>>

(***************************************************************************)
(* Scanner specification: one call of a scanner-level function on a text   *)
(***************************************************************************)
InitScan ==
    /\ input \in ScanInputs
    /\ op = "init"
    /\ arg = NoArg
    /\ result = NoResult

CallNested ==
    /\ op = "init"
    /\ \E pair \in TokenPairs :
         /\ arg' = pair
         /\ result' = nested(input, pair[1], pair[2])
    /\ op' = "nested"
    /\ UNCHANGED input

CallDelimited ==
    /\ op = "init"
    /\ arg' = <<<<QUOTE>>, <<QUOTE>>>>
    /\ result' = delimited(input, <<QUOTE>>)
    /\ op' = "delimited"
    /\ UNCHANGED input

CallText ==
    /\ op = "init"
    /\ result' = Text_parse_no_whitespace(input)
    /\ op' = "text"
    /\ UNCHANGED <<input, arg>>

CallElement ==
    /\ op = "init"
    /\ result' = Element_parse_no_whitespace(input)
    /\ op' = "element"
    /\ UNCHANGED <<input, arg>>

NextScan == CallNested \/ CallDelimited \/ CallText \/ CallElement

SpecScan == InitScan /\ [][NextScan]_vars

(***************************************************************************)
(* Reference notions the scanner claims are stated with                    *)
(***************************************************************************)
\* the token t stands at 0-based offset p of s
TokenAt(s, t, p) == p + Len(t) <= Len(s) /\ SubSeq(s, p + 1, p + Len(t)) = t

\* the character before offset p of s is a backslash
EscapedAt(s, p) == p > 0 /\ s[p] = BACKSLASH

RECURSIVE RefClose(_, _, _, _, _)
\* left-to-right token walk over body from offset p at depth d: the offset of
\* the end token that closes depth 1, or -1 when body ends first
RefClose(body, s, e, p, d) ==
    IF p >= Len(body) THEN -1
    ELSE IF (TokenAt(body, s, p) \/ TokenAt(body, e, p)) /\ EscapedAt(body, p)
         THEN RefClose(body, s, e, p + 1, d)
    ELSE IF TokenAt(body, s, p) THEN RefClose(body, s, e, p + Len(s), d + 1)
    ELSE IF TokenAt(body, e, p)
         THEN IF d = 1 THEN p ELSE RefClose(body, s, e, p + Len(e), d - 1)
    ELSE RefClose(body, s, e, p + 1, d)

\* number of unescaped occurrences of the one-character token c before offset k
CountBefore(body, c, k) ==
    Cardinality({i \in 0..(k - 1) : body[i + 1] = c /\ ~EscapedAt(body, i)})

\* offsets of the closing braces whose depth, counted over the raw text, is 1
BraceClosers(body) ==
    {k \in 0..(Len(body) - 1) :
        /\ body[k + 1] = "}"
        /\ ~EscapedAt(body, k)
        /\ CountBefore(body, "{", k) = CountBefore(body, "}", k)}

\* offsets of the quotes of body that no backslash immediately precedes
QuoteClosers(body) ==
    {k \in 0..(Len(body) - 1) : body[k + 1] = QUOTE /\ ~EscapedAt(body, k)}

Least(S) == CHOOSE k \in S : \A j \in S : k <= j

(***************************************************************************)
(* C1  Asymmetric balanced scan.  Whenever the trimmed input begins with   *)
(* the start token and holds a depth-matched end token, nested returns the *)
(* text strictly between the opening token and that end token as content   *)
(* and the text after it as remainder, at any nesting depth; for the brace *)
(* pair the closing brace is the first one before which unescaped opening  *)
(* and closing braces balance.                                             *)
(***************************************************************************)
C1_AsymmetricSpan ==
    op = "nested" =>
        LET s == arg[1]
            e == arg[2]
            t == TrimStart(input)
            body == Drop(t, Len(s))
            k == RefClose(body, s, e, 0, 1)
        IN (StartsWith(t, s) /\ k # -1) =>
               /\ result = Ok(Drop(body, k + Len(e)), Take(body, k))
               /\ s = OPEN_BRACE => k = Least(BraceClosers(body))

\* a span with an inner pair was returned
C1_Witness ==
    /\ op = "nested"
    /\ arg[1] = OPEN_BRACE
    /\ IsOk(result)
    /\ result.value = <<"{", "}">>

(***************************************************************************)
(* C2  Symmetric scan.  Whenever the trimmed input begins with the quote,  *)
(* delimited returns as content everything up to the first later quote not *)
(* immediately preceded by a backslash, verbatim, and as remainder         *)
(* everything after that quote.                                            *)
(***************************************************************************)
C2_SymmetricSpan ==
    op = "delimited" =>
        LET t == TrimStart(input)
            body == Drop(t, 1)
            k == Least(QuoteClosers(body))
        IN (StartsWith(t, <<QUOTE>>) /\ QuoteClosers(body) # {}) =>
               result = Ok(Drop(body, k + 1), Take(body, k))

(***************************************************************************)
(* C3  Unclosed delimiter.  When the trimmed input opens with the start    *)
(* token and no depth-matched end token follows, nested fails with         *)
(* MissingEndDelimiter carrying the end token and the text after the       *)
(* opening token; delimited fails with MissingEndDelimiter when no         *)
(* unescaped closing quote follows the opening quote; an element whose     *)
(* body brace is never matched fails with MissingEndDelimiter.             *)
(***************************************************************************)
\* input is a tag name, whitespace, and an opening brace that is never matched
UnmatchedElement(text) ==
    \E n \in 1..Len(text) :
        /\ \A i \in 1..n : IsAlphanumeric(text[i]) \/ text[i] = "-"
        /\ LET t == TrimStart(Drop(text, n))
           IN /\ StartsWith(t, OPEN_BRACE)
              /\ BraceClosers(Drop(t, 1)) = {}

C3_Unclosed ==
    /\ op = "nested" =>
         LET s == arg[1]
             e == arg[2]
             t == TrimStart(input)
             body == Drop(t, Len(s))
         IN (StartsWith(t, s) /\ RefClose(body, s, e, 0, 1) = -1) =>
                result = missing_delimiter(e, body)
    /\ op = "delimited" =>
         LET t == TrimStart(input)
         IN (StartsWith(t, <<QUOTE>>) /\ QuoteClosers(Drop(t, 1)) = {}) =>
                result.kind = "MissingEndDelimiter"
    /\ op = "element" =>
         (UnmatchedElement(input) => result.kind = "MissingEndDelimiter")

\* the scan ran past a balanced inner pair to the end of the input
C3_Witness ==
    /\ op = "nested"
    /\ result.kind = "MissingEndDelimiter"
    /\ result.found = <<"{", "}">>

(***************************************************************************)
(* C9  Text literal failures.  Text parse fails with InvalidInput when the *)
(* first non-whitespace character of the input is not a double quote (or   *)
(* there is none), and with MissingEndDelimiter when the input opens a     *)
(* quote and no later quote is free of an immediately preceding backslash; *)
(* in both cases no Text is produced.                                      *)
(***************************************************************************)
C9_TextFailures ==
    op = "text" =>
        LET t == TrimStart(input)
        IN /\ ~StartsWith(t, <<QUOTE>>) =>
                 (result.kind = "InvalidInput" /\ result.found = Take(t, 1))
           /\ (StartsWith(t, <<QUOTE>>) /\ QuoteClosers(Drop(t, 1)) = {}) =>
                 result.kind = "MissingEndDelimiter"

\* an opened literal whose only later quote is escaped was refused
C9_Witness ==
    /\ op = "text"
    /\ result.kind = "MissingEndDelimiter"
    /\ Find(input, <<BACKSLASH, QUOTE>>) # -1

(***************************************************************************)
(* Lexer inputs: every short text over the attribute alphabet, and texts   *)
(* laid out as prefix, name, gap, '=', value, tail                         *)
(***************************************************************************)
MaxAttrLen == 4
MaxNameLen == 2

AttrAlphabet == {".", "#", "=", QUOTE, BACKSLASH, " ", "a", "-", EACUTE}

NameAlphabet == {"a", "-", EACUTE}

Prefixes == {<<".">>, <<"#">>, <<>>}

Gaps == {<<>>, <<" ">>, <<" ", "b">>, <<".", "b">>}

Eqs == {<<>>, <<"=">>, <<" ", "=", " ">>}

Values ==
    {<<>>, <<"c">>, <<QUOTE>>, <<QUOTE, "c", QUOTE>>,
     <<QUOTE, "c", BACKSLASH, QUOTE, "d", QUOTE>>, <<QUOTE, EACUTE, QUOTE>>}

Tails ==
    {<<>>, <<" ">>, <<" ", QUOTE, "t", QUOTE>>,
     <<" ", ".", "b", "=", QUOTE, "c", QUOTE>>,
     <<" ", "d", "{", ".", "b", "=", QUOTE, "c", QUOTE, "}">>}

AttrForms ==
    {Flat(<<p, n, g, e, v, tl>>) :
        p \in Prefixes, n \in Strs(NameAlphabet, MaxNameLen), g \in Gaps,
        e \in Eqs, v \in Values, tl \in Tails}

LexInputs == Strs(AttrAlphabet, MaxAttrLen) \cup AttrForms

(***************************************************************************)
(* Lexer specification: one call of the tag lexer or the attribute parser  *)
(***************************************************************************)
InitLex ==
    /\ input \in LexInputs
    /\ op = "init"
    /\ arg = NoArg
    /\ result = NoResult

CallTag ==
    /\ op = "init"
    /\ result' = Tag_parse_no_whitespace(input)
    /\ op' = "tag"
    /\ UNCHANGED <<input, arg>>

CallAttribute ==
    /\ op = "init"
    /\ result' = Attribute_parse_no_whitespace(input)
    /\ op' = "attribute"
    /\ UNCHANGED <<input, arg>>

NextLex == CallTag \/ CallAttribute

SpecLex == InitLex /\ [][NextLex]_vars

(***************************************************************************)
(* Reference notions the lexer claims are stated with                      *)
(***************************************************************************)
\* the characters a name is made of: alphanumerics and the hyphen
NameChars == {"a", "b", "c", "d", "t", EACUTE, "-"}

\* length of the longest leading run of name characters of s
RunLen(s) ==
    LET runs == {n \in 0..Len(s) : \A i \in 1..n : s[i] \in NameChars}
    IN CHOOSE n \in runs : \A m \in runs : n >= m

\* the text up to the first '=' with trailing whitespace removed, or the
\* whole input when it holds no '='
KeyText(text) ==
    IF Find(text, <<"=">>) = -1 THEN text
    ELSE TrimEnd(Take(text, Find(text, <<"=">>)))

\* the text after the first '=' with leading whitespace removed
ValueText(text) == TrimStart(Drop(text, Find(text, <<"=">>) + 1))

(***************************************************************************)
(* C4  Tag lexer.  Tag::parse_no_whitespace returns as name the longest    *)
(* leading run of alphanumeric or '-' characters and as remainder the rest *)
(* of the input, so name followed by remainder is the input; it fails with *)
(* EmptyInput exactly when that run is empty.                              *)
(***************************************************************************)
C4_TagLexer ==
    op = "tag" =>
        LET n == RunLen(input)
        IN /\ n > 0 => result = Ok(Drop(input, n), Tag_new(Take(input, n)))
           /\ n = 0 <=> result = EmptyInput
           /\ IsOk(result) => result.value.name \o result.rest = input

\* a hyphenated name was split from a non-empty remainder
C4_Witness ==
    /\ op = "tag"
    /\ IsOk(result)
    /\ Find(result.value.name, <<"-">>) # -1
    /\ result.rest # <<>>

(***************************************************************************)
(* C5  Class shorthand.  For every input that begins with '.' and a        *)
(* non-empty name not followed, after optional whitespace, by '=',         *)
(* Attribute parse returns the attribute class = name and the remainder is *)
(* the input right after the name, whatever comes later in the input.      *)
(***************************************************************************)
C5_ClassShorthand ==
    op = "attribute" =>
        LET n == RunLen(Drop(input, 1))
            after == Drop(input, 1 + n)
        IN (/\ StartsWith(input, <<".">>)
            /\ n > 0
            /\ ~StartsWith(TrimStart(after), <<"=">>)) =>
               result = Ok(after, Attribute_new(CLASS, Take(Drop(input, 1), n)))

(***************************************************************************)
(* C6  Key/value attribute.  For input of the form '.' name, optional      *)
(* whitespace, '=', optional whitespace, quoted literal, Attribute parse   *)
(* returns the attribute name = raw text between the quotes and the        *)
(* remainder right after the closing quote; when anything other than       *)
(* whitespace stands between the name and the '=', no key/value attribute  *)
(* is accepted (the only success is the class shorthand).  The abort of    *)
(* the value scan (C20) is set aside here.                                 *)
(***************************************************************************)
C6_KeyValue ==
    op = "attribute" =>
        LET n == RunLen(Drop(input, 1))
            name == Take(Drop(input, 1), n)
            after == TrimStart(Drop(input, 1 + n))
            v == TrimStart(Drop(after, 1))
            body == Drop(v, 1)
            k == Least(QuoteClosers(body))
        IN (StartsWith(input, <<".">>) /\ n > 0) =>
               /\ (/\ StartsWith(after, <<"=">>)
                   /\ StartsWith(v, <<QUOTE>>)
                   /\ QuoteClosers(body) # {}
                   /\ result # Panic) =>
                      result = Ok(Drop(body, k + 1),
                                  Attribute_new(name, Take(body, k)))
               /\ (~StartsWith(after, <<"=">>) /\ IsOk(result)) =>
                      result.value = Attribute_new(CLASS, name)

(***************************************************************************)
(* C7  ID shorthand.  Input that begins with '#' and a non-empty name      *)
(* parses to the attribute id = name with the remainder right after the    *)
(* name, also when a '=' comes later in the input (the '#' form is tried   *)
(* before the '.' forms); '#' followed by an empty name fails with         *)
(* InvalidInput.                                                           *)
(***************************************************************************)
C7_IdShorthand ==
    (op = "attribute" /\ StartsWith(input, <<"#">>)) =>
        LET n == RunLen(Drop(input, 1))
        IN /\ n > 0 =>
                result = Ok(Drop(input, 1 + n),
                            Attribute_new(ID, Take(Drop(input, 1), n)))
           /\ n = 0 => (result.kind = "InvalidInput" /\ result.found = input)

\* an id was read from an input that holds a '=' further on
C7_Witness ==
    /\ op = "attribute"
    /\ StartsWith(input, <<"#">>)
    /\ IsOk(result)
    /\ result.value.key = ID
    /\ Find(input, <<"=">>) # -1

(***************************************************************************)
(* C8  Attribute validation.  The key of an input is invalid when the      *)
(* input begins with '#' and no name follows, or when it does not begin    *)
(* with '#' and its key text (the text before the first '=', or the whole  *)
(* input) does not begin with '.', or begins with '.' and no name follows. *)
(***************************************************************************)
InvalidKey(text) ==
    IF StartsWith(text, <<"#">>) THEN RunLen(Drop(text, 1)) = 0
    ELSE \/ ~StartsWith(KeyText(text), <<".">>)
         \/ RunLen(Drop(KeyText(text), 1)) = 0

\* C8 as stated: every input with an invalid key fails with InvalidInput
\* and no other kind
C8_AlwaysInvalidInput ==
    (op = "attribute" /\ InvalidKey(input)) => result.kind = "InvalidInput"

\* C8 amended: an input with an invalid key never yields an Attribute; when
\* the call returns, the error is InvalidInput, except that an empty key
\* text yields MissingToken, and except that an input holding '=' has its
\* value literal scanned before the key is looked at, so that a value with
\* no opening quote yields the scanner's InvalidInput and a value with no
\* closing quote yields MissingEndDelimiter (the scan can also abort, C20).
C8_InvalidKeyFails ==
    (op = "attribute" /\ InvalidKey(input)) =>
        LET hasEq == Find(input, <<"=">>) # -1 /\ ~StartsWith(input, <<"#">>)
            v == ValueText(input)
            opened == hasEq /\ StartsWith(v, <<QUOTE>>)
            closed == opened /\ QuoteClosers(Drop(v, 1)) # {}
            keyReached == ~hasEq \/ (closed /\ result.kind # "Panic")
        IN /\ ~IsOk(result)
           /\ result.kind \in {"InvalidInput", "MissingToken",
                               "MissingEndDelimiter", "Panic"}
           /\ result.kind = "Panic" => closed
           /\ result.kind = "MissingEndDelimiter" <=> (opened /\ ~closed)
           /\ result.kind = "MissingToken" <=>
                  (keyReached /\ ~StartsWith(input, <<"#">>)
                   /\ KeyText(input) = <<>>)
           /\ (hasEq /\ ~opened) =>
                  result = invalid_input(Take(v, 1),
                                         Ctx("expected start delimiter"))

\* an empty key text in front of a well-formed value was refused
C8_Witness ==
    /\ op = "attribute"
    /\ InvalidKey(input)
    /\ result.kind = "MissingToken"
    /\ Find(input, <<"=">>) # -1

(***************************************************************************)
(* Element inputs: a tag, an opening brace and a body laid out as a        *)
(* sequence of items separated by single spaces                            *)
(***************************************************************************)
MaxItems == 3

ELEM_TAG == <<"d">>

\* the source text of each body item
ItemText ==
    << <<".", "a">>,
       <<"#", "b">>,
       <<".", "c", "=", QUOTE, "d", QUOTE>>,
       <<QUOTE, "t", QUOTE>>,
       <<"d", "{", "}">>,
       <<"b", "{", ".", "c", "=", QUOTE, "d", QUOTE, "}">> >>

NumItems == Len(ItemText)

RECURSIVE BodyText(_)
\* the items of a layout, each followed by a space
BodyText(layout) ==
    IF layout = <<>> THEN <<>>
    ELSE ItemText[Head(layout)] \o <<" ">> \o BodyText(Tail(layout))

ElemText(layout) == ELEM_TAG \o <<" ", "{", " ">> \o BodyText(layout) \o <<"}">>

Layouts == Strs(1..NumItems, MaxItems)

(***************************************************************************)
(* Element specification: one call of Element parse on a laid-out element  *)
(***************************************************************************)
InitElem ==
    /\ arg \in Layouts
    /\ input = ElemText(arg)
    /\ op = "init"
    /\ result = NoResult

NextElem == CallElement

SpecElem == InitElem /\ [][NextElem]_vars

(***************************************************************************)
(* Reference notions the element claims are stated with                    *)
(***************************************************************************)
ItemIsAttribute(i) == i \in {1, 2, 3}

\* what each item denotes
ItemValue ==
    << Attribute_new(CLASS, <<"a">>),
       Attribute_new(ID, <<"b">>),
       Attribute_new(<<"c">>, <<"d">>),
       Node_Text(Text_new(<<"t">>)),
       Node_Element([name |-> Tag_new(<<"d">>), attributes |-> <<>>,
                     children |-> <<>>]),
       Node_Element([name |-> Tag_new(<<"b">>),
                     attributes |-> <<Attribute_new(<<"c">>, <<"d">>)>>,
                     children |-> <<>>]) >>

RECURSIVE Pick(_, _)
\* the values of the items of a layout that are (attr = TRUE) attributes or
\* (attr = FALSE) nodes, in layout order
Pick(layout, attr) ==
    IF layout = <<>> THEN <<>>
    ELSE (IF ItemIsAttribute(Head(layout)) = attr
          THEN <<ItemValue[Head(layout)]>> ELSE <<>>)
         \o Pick(Tail(layout), attr)

(***************************************************************************)
(* C10  Element ordering.  For every element body in which attributes and  *)
(* child nodes are interleaved in any order, Element parse succeeds, the   *)
(* attributes are the body's attributes in source order and the children   *)
(* the body's nodes in source order, duplicates included.                  *)
(***************************************************************************)
C10_ElementOrdering ==
    op = "element" =>
        result = Ok(<<>>, [name |-> Tag_new(ELEM_TAG),
                           attributes |-> Pick(arg, TRUE),
                           children |-> Pick(arg, FALSE)])

(***************************************************************************)
(* C11  Attribute ownership across nesting.  When an element body holds    *)
(* shorthand attributes ('#name', '.name') followed by child elements that *)
(* themselves hold key/value attributes, the parent's attributes are       *)
(* exactly the shorthand attributes written at the top level of its body   *)
(* and its children exactly the top-level elements; the '=' inside a       *)
(* child's braces changes neither sequence of the parent.                  *)
(***************************************************************************)
\* shorthand attributes first, then child elements, one of them with a
\* key/value attribute of its own
ShorthandThenChildren(layout) ==
    \E k \in 1..Len(layout) :
        /\ \A i \in 1..k : layout[i] \in {1, 2}
        /\ \A i \in (k + 1)..Len(layout) : layout[i] \in {5, 6}
        /\ \E i \in (k + 1)..Len(layout) : layout[i] = 6

C11_AttributeOwnership ==
    (op = "element" /\ ShorthandThenChildren(arg)) =>
        /\ IsOk(result)
        /\ result.value.attributes = Pick(arg, TRUE)
        /\ result.value.children = Pick(arg, FALSE)

(***************************************************************************)
(* Commented element inputs: a tag, an optional comment, an opening brace  *)
(* and a body laid out as a sequence of pieces separated by single spaces; *)
(* a piece is a body item, a text that is neither attribute nor node, or a *)
(* comment                                                                 *)
(***************************************************************************)
MaxPieces == 3

\* the source text of each piece: the items, then '?', then the comments
PieceText ==
    ItemText \o
    << <<"?">>,
       <<"/", "/", "z", "\n">>,
       <<"/", "*", "z", "*", "/">>,
       <<"/", "*", "=", "*", "/">> >>

NumPieces == Len(PieceText)

JunkPieces == {NumItems + 1}

CommentPieces == (NumItems + 2)..NumPieces

RECURSIVE PieceBody(_)
\* the pieces of a layout, each followed by a space
PieceBody(layout) ==
    IF layout = <<>> THEN <<>>
    ELSE PieceText[Head(layout)] \o <<" ">> \o PieceBody(Tail(layout))

\* the element text with the comment piece pre (0 for none) between the tag
\* and the opening brace
PieceElemText(pre, layout) ==
    ELEM_TAG \o <<" ">>
        \o (IF pre = 0 THEN <<>> ELSE PieceText[pre] \o <<" ">>)
        \o <<"{", " ">> \o PieceBody(layout) \o <<"}">>

PieceLayouts == Strs(1..NumPieces, MaxPieces)

(***************************************************************************)
(* Commented element specification: one call of Element parse              *)
(***************************************************************************)
InitPieces ==
    /\ arg \in ({0} \cup CommentPieces) \X PieceLayouts
    /\ input = PieceElemText(arg[1], arg[2])
    /\ op = "init"
    /\ result = NoResult

NextPieces == CallElement

SpecPieces == InitPieces /\ [][NextPieces]_vars

\* the pieces of a layout that are not comments, in layout order
WithoutComments(layout) == SelectSeq(layout, LAMBDA i : i \notin CommentPieces)

(***************************************************************************)
(* C12  No partial elements.  If an element body holds, between its items  *)
(* and comments, a text that is neither an attribute nor a node, Element   *)
(* parse fails with InvalidInput (context: unexpected content in element)  *)
(* and returns no Element, whatever parsed before that text.               *)
(***************************************************************************)
C12_NoPartialElement ==
    (op = "element" /\ \E i \in 1..Len(arg[2]) : arg[2][i] \in JunkPieces) =>
        /\ result.kind = "InvalidInput"
        /\ result.context = Ctx("Unexpected content in element")

(***************************************************************************)
(* C13  Comments are transparent.  Line and block comments between the tag *)
(* name and the opening brace, or before, between or after the items of    *)
(* the body, are discarded: whenever the source with those comments        *)
(* removed parses to an Element, the commented source parses to the same   *)
(* Element.                                                                *)
(***************************************************************************)
C13_CommentsTransparent ==
    op = "element" =>
        LET plain == Element_parse_no_whitespace(
                         PieceElemText(0, WithoutComments(arg[2])))
        IN IsOk(plain) => result = plain

(***************************************************************************)
(* Top-level inputs: the laid-out pieces without an enclosing element, and *)
(* every text made of at most MaxTopAtoms pieces, a literal holding a      *)
(* two-byte character, a space or a letter, with nothing put between them  *)
(***************************************************************************)
MaxTopAtoms == 3

TopAtoms ==
    {PieceText[i] : i \in 1..NumPieces}
        \cup {<<QUOTE, EACUTE, QUOTE>>, <<" ">>, <<"a">>}

TopInputs ==
    {PieceBody(layout) : layout \in PieceLayouts}
        \cup {Flat(ss) : ss \in Strs(TopAtoms, MaxTopAtoms)}

(***************************************************************************)
(* Top-level specification: one call of a parse function on a text         *)
(***************************************************************************)
InitTop ==
    /\ input \in TopInputs
    /\ op = "init"
    /\ arg = NoArg
    /\ result = NoResult

CallNode ==
    /\ op = "init"
    /\ result' = Node_parse_no_whitespace(input)
    /\ op' = "node"
    /\ UNCHANGED <<input, arg>>

CallBlock ==
    /\ op = "init"
    /\ result' = Block_parse_no_whitespace(input)
    /\ op' = "block"
    /\ UNCHANGED <<input, arg>>

NextTop ==
    \/ CallNested
    \/ CallDelimited
    \/ CallTag
    \/ CallAttribute
    \/ CallText
    \/ CallNode
    \/ CallElement
    \/ CallBlock

SpecTop == InitTop /\ [][NextTop]_vars

(***************************************************************************)
(* C14  Block parse never fails.  For every input Block parse returns      *)
(* success; the remainder is a tail of the input at which no further node  *)
(* parses; the first child is the node that parses at the start of the     *)
(* input, and an input at whose start no node parses yields the empty      *)
(* Block with the whole input as remainder.                                *)
(***************************************************************************)
C14_BlockNeverFails ==
    op = "block" =>
        /\ IsOk(result)
        /\ \E k \in 0..Len(input) : result.rest = Drop(input, k)
        /\ result.rest # <<>> => ~IsOk(Node_parse_no_whitespace(result.rest))
        /\ IF IsOk(Node_parse_no_whitespace(input))
           THEN /\ result.value.children # <<>>
                /\ Head(result.value.children)
                       = Node_parse_no_whitespace(input).value
           ELSE result = Ok(input, Block_new(<<>>))

(***************************************************************************)
(* C20  Totality.  Every parse function (scanner, Tag, Attribute, Text,    *)
(* Node, Element, Block) returns a success or a ParseError for every       *)
(* input, also when a multi-byte character immediately precedes a          *)
(* delimiter: no call aborts.                                              *)
(***************************************************************************)
C20_Totality ==
    op # "init" =>
        result.kind \in {"Ok", "EmptyInput", "UnexpectedEndOfInput",
                         "InvalidInput", "MissingToken", "MissingEndDelimiter"}

(***************************************************************************)
(* Repetition inputs: every text made of at most MaxManyAtoms atoms, with  *)
(* nothing put between them                                                *)
(***************************************************************************)
MaxManyAtoms == 3
MaxN == 3

ManyAtoms ==
    {<<"a">>, <<".", "a">>, <<"#", "b">>, <<QUOTE, "t", QUOTE>>,
     <<QUOTE, EACUTE, QUOTE>>, <<"d", "{", "}">>, <<"?">>, <<" ">>,
     <<"/", "*", "z", "*", "/">>}

ManyInputs == {Flat(ss) : ss \in Strs(ManyAtoms, MaxManyAtoms)}

\* the implementors of the primitive whose repetition is one call
Entities == {"Comment", "Tag", "Attribute", "Text", "Node", "Element"}

(***************************************************************************)
(* Repetition specification: one call of a repetition combinator           *)
(***************************************************************************)
InitMany ==
    /\ input \in ManyInputs
    /\ op = "init"
    /\ arg = NoArg
    /\ result = NoResult

CallParseMany ==
    /\ op = "init"
    /\ \E entity \in Entities :
         /\ arg' = <<entity>>
         /\ result' = parse_many(entity, input)
    /\ op' = "parse_many"
    /\ UNCHANGED input

CallParseManyIgnoringComments ==
    /\ op = "init"
    /\ \E entity \in Entities :
         /\ arg' = <<entity>>
         /\ result' = parse_many_ignoring_comments(entity, input)
    /\ op' = "parse_many_ignoring_comments"
    /\ UNCHANGED input

CallParseN ==
    /\ op = "init"
    /\ \E entity \in Entities, n \in 0..MaxN :
         /\ arg' = <<entity, n>>
         /\ result' = parse_n(entity, input, n)
    /\ op' = "parse_n"
    /\ UNCHANGED input

NextMany == CallParseMany \/ CallParseManyIgnoringComments \/ CallParseN

SpecMany == InitMany /\ [][NextMany]_vars

(***************************************************************************)
(* C15  parse_many and parse_many_ignoring_comments never return an error. *)
(* They return the items parsed before the first failing primitive call:   *)
(* the remainder is a tail of the input at which the primitive accepts     *)
(* nothing more, the first item is the one the primitive accepts at the    *)
(* start of the input, and when it accepts none there the result is no     *)
(* items and the whole input.                                              *)
(***************************************************************************)
C15_ManyNeverFails ==
    /\ op = "parse_many" =>
         LET first == parse_no_whitespace(arg[1], TrimStart(input))
             none == TrimStart(input) = <<>> \/ ~IsOk(first)
         IN /\ IsOk(result)
            /\ \E k \in 0..Len(input) : result.rest = Drop(input, k)
            /\ \/ TrimStart(result.rest) = <<>>
               \/ ~IsOk(parse_no_whitespace(arg[1], TrimStart(result.rest)))
            /\ none => result = Ok(input, <<>>)
            /\ ~none => (result.value # <<>>
                         /\ Head(result.value) = first.value)
    /\ op = "parse_many_ignoring_comments" =>
         LET first == parse_ignoring_comments(arg[1], input)
         IN /\ result.kind = "Tuple"
            /\ \E k \in 0..Len(input) : result.rest = Drop(input, k)
            /\ ~IsOk(parse_ignoring_comments(arg[1], result.rest))
            /\ ~IsOk(first) => result = Tuple(input, <<>>)
            /\ IsOk(first) => (result.value # <<>>
                               /\ Head(result.value) = first.value)

(***************************************************************************)
(* C16  parse_n.  parse_n(input, n) succeeds only with exactly n items;    *)
(* with n = 0 it succeeds with no items and the input as remainder; for    *)
(* n > 0, where the first n - 1 items end at remainder r: if r is empty or *)
(* whitespace-only the call fails with UnexpectedEndOfInput, if the        *)
(* primitive fails at r the call fails with the primitive's error          *)
(* unchanged, and otherwise it succeeds with the next item appended; when  *)
(* the first n - 1 items cannot be parsed the call fails as parse_n of     *)
(* n - 1 does.                                                             *)
(***************************************************************************)
C16_ParseN ==
    op = "parse_n" =>
        LET entity == arg[1]
            n == arg[2]
            before == parse_n(entity, input, n - 1)
            next == parse_no_whitespace(entity, TrimStart(before.rest))
        IN /\ IsOk(result) => Len(result.value) = n
           /\ n = 0 => result = Ok(input, <<>>)
           /\ (n > 0 /\ ~IsOk(before)) => result = before
           /\ (n > 0 /\ IsOk(before)) =>
                 IF TrimStart(before.rest) = <<>>
                 THEN result = UnexpectedEndOfInput
                 ELSE IF IsOk(next)
                 THEN result = Ok(next.rest, Append(before.value, next.value))
                 ELSE result = next

\* the input ran out after one item had been parsed
C16_Witness ==
    /\ op = "parse_n"
    /\ arg[2] = 2
    /\ result = UnexpectedEndOfInput
    /\ IsOk(parse_n(arg[1], input, 1))

(***************************************************************************)
(* Comment skipper inputs: every text made of at most MaxSkipAtoms atoms   *)
(***************************************************************************)
MaxSkipAtoms == 5

SkipAtoms == {LINE_START, BLOCK_START, BLOCK_END, <<"\n">>, <<" ">>, <<"a">>}

SkipInputs == {Flat(ss) : ss \in Strs(SkipAtoms, MaxSkipAtoms)}

\* the &str a function returns in place of a ParseResult
Remainder(rest) == [kind |-> "Str", rest |-> rest]

(***************************************************************************)
(* Comment skipper specification: one call of consume_comments             *)
(***************************************************************************)
InitSkip ==
    /\ input \in SkipInputs
    /\ op = "init"
    /\ arg = NoArg
    /\ result = NoResult

CallConsumeComments ==
    /\ op = "init"
    /\ result' = Remainder(consume_comments(input))
    /\ op' = "consume_comments"
    /\ UNCHANGED <<input, arg>>

NextSkip == CallConsumeComments

SpecSkip == InitSkip /\ [][NextSkip]_vars

\* after its leading whitespace the text opens a line comment, or a block
\* comment whose depth-matched end token is present
HasLeadingComment(text) ==
    LET t == TrimStart(text)
    IN \/ StartsWith(t, LINE_START)
       \/ /\ StartsWith(t, BLOCK_START)
          /\ RefClose(Drop(t, 2), BLOCK_START, BLOCK_END, 0, 1) # -1

(***************************************************************************)
(* C17  Idempotent comment skipping.  For every input s,                   *)
(* consume_comments(consume_comments(s)) equals consume_comments(s).       *)
(***************************************************************************)
C17_Idempotent ==
    op = "consume_comments" => consume_comments(result.rest) = result.rest

\* a line comment and then a block comment were skipped in front of a text
\* that was kept
C17_Witness ==
    /\ op = "consume_comments"
    /\ result.rest = <<"a">>
    /\ StartsWith(input, LINE_START)
    /\ StartsWith(Drop(input, Find(input, <<"\n">>) + 1), BLOCK_START)

(***************************************************************************)
(* C18  The comment skipper is total and a no-op without comments.         *)
(***************************************************************************)
\* C18 as stated: an input with no leading comment (an unterminated block
\* comment included) is returned unchanged
C18_NoOpWithoutComment ==
    (op = "consume_comments" /\ ~HasLeadingComment(input)) =>
        result.rest = input

\* C18 amended: consume_comments returns a tail of the input for every
\* input; when the input has no leading comment (an unterminated block
\* comment is none) the remainder is the input with its leading whitespace
\* removed
C18_TrimsWithoutComment ==
    op = "consume_comments" =>
        /\ \E k \in 0..Len(input) : result.rest = Drop(input, k)
        /\ ~HasLeadingComment(input) => result.rest = TrimStart(input)

\* an unterminated block comment behind whitespace was left in place
C18_Witness ==
    /\ op = "consume_comments"
    /\ StartsWith(result.rest, BLOCK_START)
    /\ result.rest # input
    /\ ~HasLeadingComment(input)

(***************************************************************************)
(* Builder specification: an Element is built call by call, rendered, and  *)
(* the rendered text is parsed                                             *)
(***************************************************************************)
MaxBuilt == 3

BuildKeys == {<<"c">>, CLASS}

BuildValues == {<<"d">>, <<>>}

BuildChildren ==
    {Node_Text(Text_new(<<"t">>)),
     Node_Element(Element_new(<<"b">>)),
     Node_Element(with_child(Element_new(<<"b">>),
                             Node_Element(Element_new(<<"a">>))))}

BuildAttributes == {Attribute_new(ID, <<"b">>)}

InitBuild ==
    /\ arg = Element_new(ELEM_TAG)
    /\ input = <<>>
    /\ op = "build"
    /\ result = NoResult

WithKeyValue ==
    /\ op = "build"
    /\ Len(arg.attributes) + Len(arg.children) < MaxBuilt
    /\ \E key \in BuildKeys, value \in BuildValues :
         arg' = with_key_value(arg, key, value)
    /\ UNCHANGED <<input, op, result>>

WithAttribute ==
    /\ op = "build"
    /\ Len(arg.attributes) + Len(arg.children) < MaxBuilt
    /\ \E attribute \in BuildAttributes :
         arg' = with_attribute(arg, attribute)
    /\ UNCHANGED <<input, op, result>>

WithChild ==
    /\ op = "build"
    /\ Len(arg.attributes) + Len(arg.children) < MaxBuilt
    /\ \E child \in BuildChildren : arg' = with_child(arg, child)
    /\ UNCHANGED <<input, op, result>>

Render ==
    /\ op = "build"
    /\ input' = Element_display(arg)
    /\ op' = "init"
    /\ UNCHANGED <<arg, result>>

NextBuild ==
    WithKeyValue \/ WithAttribute \/ WithChild \/ Render \/ CallElement

SpecBuild == InitBuild /\ [][NextBuild]_vars

(***************************************************************************)
(* C19  Round trip.  For every Element built with new, with_key_value and  *)
(* with_child, parsing its rendered text yields an Element with the same   *)
(* tag, the same attribute sequence and the same child sequence.           *)
(***************************************************************************)
C19_RoundTrip ==
    op = "element" =>
        /\ IsOk(result)
        /\ result.value.name = arg.name
        /\ result.value.attributes = arg.attributes
        /\ result.value.children = arg.children

(***************************************************************************)
(* C21  Escape rule of the asymmetric scan.  An occurrence of the start or *)
(* end token is skipped if and only if it is immediately preceded by an    *)
(* unescaped backslash, that is a backslash not itself escaped by the      *)
(* backslash before it; the span that this rule selects is returned        *)
(* verbatim, backslashes included.                                         *)
(***************************************************************************)
RECURSIVE BackslashRun(_, _)
\* the number of consecutive backslashes that end right before offset p of s
BackslashRun(s, p) ==
    IF p > 0 /\ s[p] = BACKSLASH THEN 1 + BackslashRun(s, p - 1) ELSE 0

\* the character before offset p of s is a backslash that is not itself
\* escaped
UnescapedBackslashAt(s, p) == BackslashRun(s, p) % 2 = 1

RECURSIVE RefCloseUnescaped(_, _, _, _, _)
\* the token walk of RefClose, skipping the tokens behind an unescaped
\* backslash only
RefCloseUnescaped(body, s, e, p, d) ==
    IF p >= Len(body) THEN -1
    ELSE IF (TokenAt(body, s, p) \/ TokenAt(body, e, p))
            /\ UnescapedBackslashAt(body, p)
         THEN RefCloseUnescaped(body, s, e, p + 1, d)
    ELSE IF TokenAt(body, s, p)
         THEN RefCloseUnescaped(body, s, e, p + Len(s), d + 1)
    ELSE IF TokenAt(body, e, p)
         THEN IF d = 1 THEN p
              ELSE RefCloseUnescaped(body, s, e, p + Len(e), d - 1)
    ELSE RefCloseUnescaped(body, s, e, p + 1, d)

C21_EscapeRule ==
    op = "nested" =>
        LET s == arg[1]
            e == arg[2]
            t == TrimStart(input)
            body == Drop(t, Len(s))
            k == RefCloseUnescaped(body, s, e, 0, 1)
        IN StartsWith(t, s) =>
               IF k # -1
               THEN result = Ok(Drop(body, k + Len(e)), Take(body, k))
               ELSE result = missing_delimiter(e, body)

(***************************************************************************)
(* C22  Missing start delimiter.  When the input, leading whitespace       *)
(* ignored, does not begin with the start token, the scanner fails with    *)
(* InvalidInput: found is the first len(start) characters of the trimmed   *)
(* input (empty for an empty input), the context names the expected start  *)
(* delimiter, and a start token later in the text is not looked for.       *)
(***************************************************************************)
C22_MissingStart ==
    LET t == TrimStart(input)
    IN /\ (op = "nested" /\ ~StartsWith(t, arg[1])) =>
              result = invalid_input(Take(t, Len(arg[1])),
                                     <<"Expected start delimiter: ", arg[1]>>)
       /\ (op = "delimited" /\ ~StartsWith(t, arg[1])) =>
              result = invalid_input(Take(t, Len(arg[1])),
                                     Ctx("expected start delimiter"))

\* the scan is refused although a complete span opens later in the text
C22_Witness ==
    /\ op = "nested"
    /\ arg = <<OPEN_BRACE, CLOSE_BRACE>>
    /\ result.kind = "InvalidInput"
    /\ result.found = <<"a">>
    /\ Find(input, OPEN_BRACE) # -1
    /\ Find(input, OPEN_BRACE) < Find(input, CLOSE_BRACE)

(***************************************************************************)
(* C23  Innermost error surfaces.  When an Element parse fails because     *)
(* the first item of its body fails (a text literal without its closing    *)
(* quote, a child element with an invalid body), the error returned is     *)
(* the error of a sub-parser that failed there - the Attribute, Text or    *)
(* Element parse at that position - with kind and payload intact.          *)
(***************************************************************************)
C23_InnermostError ==
    op = "element" =>
        LET t == Tag_parse_no_whitespace(input)
            b == nested(consume_comments(t.rest), OPEN_BRACE, CLOSE_BRACE)
            c == consume_comments(b.value)
            a == Attribute_parse_ignoring_comments(c)
            n == Node_parse_ignoring_comments(c)
        IN (/\ IsOk(t)
            /\ IsOk(b)
            /\ c # <<>>
            /\ ~IsOk(a) /\ a # Panic
            /\ ~IsOk(n) /\ n # Panic)
           => result \in {a, Text_parse_ignoring_comments(c),
                          Element_parse_ignoring_comments(c)}

(***************************************************************************)
(* C24  Exact-position primitive.  parse_no_whitespace of Tag, Attribute,  *)
(* Text, Node, Element and Block parses exactly at the given position: on  *)
(* an input that begins with whitespace or with a comment it accepts       *)
(* nothing - the failing entities fail, Block returns no children and the  *)
(* whole input.                                                            *)
(***************************************************************************)
\* the text begins, at its very first character, with whitespace or with a
\* comment
BeginsWithGap(text) ==
    /\ text # <<>>
    /\ \/ IsWhitespace(text[1])
       \/ HasLeadingComment(text)

C24_ExactPosition ==
    BeginsWithGap(input) =>
        /\ op \in {"tag", "attribute", "text", "node", "element"} =>
               ~IsOk(result)
        /\ op = "block" => result \in {Panic, Ok(input, Block_new(<<>>))}

ExtendedByOne(seq, grown, items) ==
    /\ Len(grown) = Len(seq) + 1
    /\ SubSeq(grown, 1, Len(seq)) = seq
    /\ grown[Len(grown)] \in items

Running(rest, items, left) ==
    [kind |-> "Running", rest |-> rest, value |-> items, left |-> left]

\* the match of parse_many in state st: r is the primitive's result
parse_many_step_on(st, r) ==
    IF IsOk(r) THEN Running(r.rest, Append(st.value, r.value), st.left)
    ELSE IF r = Panic THEN Panic
    ELSE Ok(st.rest, st.value)

\* one turn of the loop of parse_many
parse_many_step(entity, st) ==
    IF TrimStart(st.rest) = <<>> THEN Ok(st.rest, st.value)
    ELSE parse_many_step_on(st,
             parse_no_whitespace(entity, TrimStart(st.rest)))

\* the while let of parse_many_ignoring_comments in state st
parse_many_ignoring_comments_step_on(st, r) ==
    IF IsOk(r) THEN Running(r.rest, Append(st.value, r.value), st.left)
    ELSE IF r = Panic THEN Panic
    ELSE Tuple(st.rest, st.value)

\* one turn of the loop of parse_many_ignoring_comments
parse_many_ignoring_comments_step(entity, st) ==
    parse_many_ignoring_comments_step_on(st,
        parse_ignoring_comments(entity, st.rest))

\* the match of parse_n in state st
parse_n_step_on(st, r) ==
    IF IsOk(r) THEN Running(r.rest, Append(st.value, r.value), st.left - 1)
    ELSE r

\* one turn of the for loop of parse_n
parse_n_step(entity, st) ==
    IF st.left = 0 THEN Ok(st.rest, st.value)
    ELSE IF TrimStart(st.rest) = <<>> THEN UnexpectedEndOfInput
    ELSE parse_n_step_on(st, parse_no_whitespace(entity, TrimStart(st.rest)))

\* the turn of Block that pushes the node and forgets to move on
Block_step_on_stays(st, n) ==
    IF IsOk(n) THEN Running(st.rest, Append(st.value, n.value), st.left)
    ELSE IF n = Panic THEN Panic
    ELSE Ok(st.rest, Block_new(st.value))

\* the let-else of the Block loop in state st: n is the Node parse
Block_step_on(st, n) ==
    IF IsOk(n) THEN Running(n.rest, Append(st.value, n.value), st.left)
    ELSE IF n = Panic THEN Panic
    ELSE Ok(st.rest, Block_new(st.value))

\* one turn of the while loop of Block::parse_no_whitespace
Block_step(st) ==
    IF st.rest = <<>> THEN Ok(st.rest, Block_new(st.value))
    ELSE Block_step_on(st, Node_parse_no_whitespace(st.rest))

\* Element::parse_no_whitespace up to its body loop, once the tag t and
\* the body span b have been scanned: the name and the remainder after the
\* closing brace, the loop set on the body
Element_open_on(t, b) ==
    IF ~IsOk(t) THEN t
    ELSE IF ~IsOk(b) THEN b
    ELSE Running(b.value, [attributes |-> <<>>, children |-> <<>>],
                 [name |-> t.value, rest_out |-> b.rest])

Element_open_after_tag(t) ==
    Element_open_on(t, IF IsOk(t)
                       THEN nested(consume_comments(t.rest),
                                   OPEN_BRACE, CLOSE_BRACE)
                       ELSE t)

Element_open(inp) == Element_open_after_tag(Tag_parse_no_whitespace(inp))

\* the two alternatives of the body loop in state st, at the text rest
\* left by consume_comments
body_step_on(st, rest, a, n) ==
    IF IsOk(a)
    THEN Running(a.rest,
                 [st.value EXCEPT !.attributes = Append(@, a.value)], st.left)
    ELSE IF a = Panic THEN Panic
    ELSE IF IsOk(n)
         THEN Running(n.rest,
                      [st.value EXCEPT !.children = Append(@, n.value)],
                      st.left)
    ELSE IF n = Panic THEN Panic
    ELSE invalid_input(rest, Ctx("Unexpected content in element"))

\* the body loop in state st after its consume_comments
body_step_at(st, rest) ==
    IF rest = <<>>
    THEN Element_from(st.left.name, st.left.rest_out,
                      body_done(st.value.attributes, st.value.children))
    ELSE body_step_on(st, rest, Attribute_parse_ignoring_comments(rest),
                      Node_parse_ignoring_comments(rest))

\* one turn of the while loop over the element body
body_step(st) ==
    body_step_at(st, IF st.rest = <<>> THEN <<>>
                     ELSE consume_comments(st.rest))

(***************************************************************************)
(* Loop specification: a repetition combinator, the Block parse or the     *)
(* Element parse called on a text and run turn by turn                     *)
(***************************************************************************)
MaxLoopAtoms == 3
MaxTurns == 4

LoopAtoms ==
    {<<".", "a">>, <<QUOTE, "t", QUOTE>>, <<"d", "{", "}">>, <<"?">>,
     <<" ">>, <<"/", "*", "z", "*", "/">>, <<"d", "{">>, <<"}">>,
     <<QUOTE, "}", QUOTE>>, <<"/", "*", "{", "*", "/">>}

LoopInputs == {Flat(ss) : ss \in Strs(LoopAtoms, MaxLoopAtoms)}

\* the implementors of RSTMLParse (parse.rs:180 gives each the combinators)
LoopEntities == Entities \cup {"Block"}

InitLoop ==
    /\ input \in LoopInputs
    /\ op = "init"
    /\ arg = NoArg
    /\ result = NoResult

StartParseMany ==
    /\ op = "init"
    /\ \E entity \in LoopEntities : arg' = <<entity>>
    /\ result' = Running(input, <<>>, 0)
    /\ op' = "parse_many"
    /\ UNCHANGED input

StartParseManyIgnoringComments ==
    /\ op = "init"
    /\ \E entity \in LoopEntities : arg' = <<entity>>
    /\ result' = Running(input, <<>>, 0)
    /\ op' = "parse_many_ignoring_comments"
    /\ UNCHANGED input

StartParseN ==
    /\ op = "init"
    /\ \E entity \in LoopEntities, n \in 0..MaxN :
         /\ arg' = <<entity, n>>
         /\ result' = Running(input, <<>>, n)
    /\ op' = "parse_n"
    /\ UNCHANGED input

StartBlock ==
    /\ op = "init"
    /\ result' = Running(input, <<>>, 0)
    /\ op' = "block"
    /\ UNCHANGED <<input, arg>>

StartElement ==
    /\ op = "init"
    /\ result' = Element_open(input)
    /\ op' = "element_body"
    /\ UNCHANGED <<input, arg>>

TurnParseMany ==
    /\ op = "parse_many"
    /\ result.kind = "Running"
    /\ Len(result.value) < MaxTurns
    /\ result' = parse_many_step(arg[1], result)
    /\ UNCHANGED <<input, op, arg>>

TurnParseManyIgnoringComments ==
    /\ op = "parse_many_ignoring_comments"
    /\ result.kind = "Running"
    /\ Len(result.value) < MaxTurns
    /\ result' = parse_many_ignoring_comments_step(arg[1], result)
    /\ UNCHANGED <<input, op, arg>>

TurnParseN ==
    /\ op = "parse_n"
    /\ result.kind = "Running"
    /\ Len(result.value) < MaxTurns
    /\ result' = parse_n_step(arg[1], result)
    /\ UNCHANGED <<input, op, arg>>

TurnBlock ==
    /\ op = "block"
    /\ result.kind = "Running"
    /\ Len(result.value) < MaxTurns
    /\ result' = Block_step(result)
    /\ UNCHANGED <<input, op, arg>>

TurnBody ==
    /\ op = "element_body"
    /\ result.kind = "Running"
    /\ Len(result.value.attributes) + Len(result.value.children) < MaxTurns
    /\ result' = body_step(result)
    /\ UNCHANGED <<input, op, arg>>

NextLoop ==
    \/ StartParseMany
    \/ StartParseManyIgnoringComments
    \/ StartParseN
    \/ StartBlock
    \/ StartElement
    \/ TurnParseMany
    \/ TurnParseManyIgnoringComments
    \/ TurnParseN
    \/ TurnBlock
    \/ TurnBody

SpecLoop == InitLoop /\ [][NextLoop]_vars

(***************************************************************************)
(* C26  No backtracking past success.  In parse_many,                      *)
(* parse_many_ignoring_comments, parse_n, the Block parse and the element  *)
(* body loop, the text that is left after a turn - the remainder returned  *)
(* by the parse that the turn accepted, or the remainder that the loop     *)
(* returns - is a suffix of the text that was left before the turn: the    *)
(* position only moves forward (in the element body loop, inside the body  *)
(* span), and the remainder returned at the end is a suffix of the input.  *)
(***************************************************************************)
\* tail is what is left of text after some prefix of it
IsSuffix(tail, text) ==
    /\ Len(tail) <= Len(text)
    /\ tail = Drop(text, Len(text) - Len(tail))

C26_NoBacktracking ==
    [][/\ (result.kind = "Running" /\ result'.kind = "Running")
          => IsSuffix(result'.rest, result.rest)
       /\ (result.kind = "Running" /\ result'.kind \in {"Ok", "Tuple"}
           /\ op # "element_body")
          => IsSuffix(result'.rest, result.rest)
       /\ (result'.kind \in {"Ok", "Tuple"})
          => IsSuffix(result'.rest, input)]_vars

\* a loop has accepted two items and stopped in front of text it left
C26_Witness ==
    /\ op \in {"parse_many", "block"}
    /\ result.kind = "Ok"
    /\ result.rest # <<>>
    /\ result.rest # input
    /\ IF op = "block" THEN Len(result.value.children) = 2
       ELSE Len(result.value) = 2

(***************************************************************************)
(* C28  Termination of the repetition combinators.  For every implementor  *)
(* of the primitive, Block included, and every finite input, parse_many    *)
(* and parse_many_ignoring_comments terminate with a finite item list.     *)
(* A turn is a function of the text left alone, so the loop terminates     *)
(* exactly when no turn goes on with the text it started from: every turn  *)
(* after which the loop goes on leaves strictly less text.                 *)
(***************************************************************************)
C28_CombinatorsTerminate ==
    [][(/\ op \in {"parse_many", "parse_many_ignoring_comments"}
        /\ result.kind = "Running"
        /\ result'.kind = "Running")
       => Len(result'.rest) < Len(result.rest)]_vars

(***************************************************************************)
(* C29  Termination of tree parsing.  The Element and the Block parse      *)
(* terminate on every finite input: every attribute or node accepted in    *)
(* an element body or in a block consumes at least one character, the     *)
(* body in which child elements are parsed is strictly shorter than the    *)
(* text of the element, and a comment removed by consume_comments takes at *)
(* least two characters.                                                   *)
(***************************************************************************)
\* the comment that opens text, if there is one, is two characters or more
CommentTakesTwo(text) ==
    IsOk(Comment_parse_no_whitespace(TrimStart(text))) =>
        Len(Comment_parse_no_whitespace(TrimStart(text)).rest) + 2
            <= Len(TrimStart(text))

C29_TreeParsingTerminates ==
    [][/\ (/\ op \in {"block", "element_body"}
           /\ result.kind = "Running"
           /\ result'.kind = "Running")
          => Len(result'.rest) < Len(result.rest)
       /\ (op' = "element_body" /\ result'.kind = "Running")
          => Len(result'.rest) < Len(input)
       /\ CommentTakesTwo(input)
       /\ result.kind = "Running" => CommentTakesTwo(result.rest)]_vars

\* an element was parsed, turn by turn, whose body holds a child element
C29_Witness ==
    /\ op = "element_body"
    /\ IsOk(result)
    /\ \E i \in 1..Len(result.value.children) :
           result.value.children[i].type = "Element"

(***************************************************************************)
(* C30  The element body span is carved by brace depth over the raw text.  *)
(* After the tag and the comments behind it, the body handed to the        *)
(* attribute/node loop is the text between the opening brace and the first *)
(* closing brace at which the unescaped braces of the raw text balance - a *)
(* brace inside a text literal, an attribute value or a comment counts     *)
(* like a structural one - and the remainder is the text after that brace; *)
(* without such a brace the parse fails with MissingEndDelimiter.          *)
(***************************************************************************)
C30_RawBraceDepth ==
    op = "element_body" =>
        LET t == Tag_parse_no_whitespace(input)
            c == consume_comments(t.rest)
            body == Drop(c, 1)
            k == Least(BraceClosers(body))
        IN (IsOk(t) /\ StartsWith(c, OPEN_BRACE)) =>
               IF BraceClosers(body) = {}
               THEN result = missing_delimiter(CLOSE_BRACE, body)
               ELSE /\ result.kind # "MissingEndDelimiter"
                    /\ (/\ result.kind = "Running"
                        /\ result.value.attributes = <<>>
                        /\ result.value.children = <<>>)
                       => /\ result.rest = Take(body, k)
                          /\ result.left.rest_out = Drop(body, k + 1)
                    /\ IsOk(result) => result.rest = Drop(body, k + 1)

\* the closing brace inside a text literal ended the body: the loop is
\* handed the opening quote alone, and the closing quote is left behind
C30_Witness ==
    /\ op = "element_body"
    /\ Find(input, <<"{", QUOTE, "}", QUOTE, "}">>) # -1
    /\ result.kind = "Running"
    /\ result.rest = <<QUOTE>>
    /\ result.left.rest_out = <<QUOTE, "}">>

====
